---------------------------- MODULE Spec2Model ----------------------------
(***************************************************************************)
(* The personal finance analyzer (personal_finance_analyzer.py) and the    *)
(* time tracking analyzer (time_tracking_analyzer.py) as state machines.   *)
(* One run of a tool is: load the CSV file, then the analyses of main,     *)
(* one action per function call.                                           *)
(*                                                                         *)
(* Text is a tuple of one-character strings, so that lower-casing and the  *)
(* substring test of infer_category are computed, not assumed.  Amounts    *)
(* and durations are integers (cents, hours); dates are day numbers        *)
(* counted from Monday 2024-01-01 (day 0).                                 *)
(***************************************************************************)
EXTENDS Integers, Sequences, FiniteSets, TLC

VARIABLES
  tool,              \* "finance" | "time" | "infer": which program runs
  file,              \* the CSV file: [status, cols, rows]
  args,              \* command line: [group_by, trend_period]
  pc,                \* position in main
  df,                \* the loaded DataFrame: [cols, rows], or None
  project_col_name,  \* 2nd result of load_time_data
  actual_group_col,  \* main's grouping column (time tool)
  diag,              \* the diagnostics printed, in order
  missing_named,     \* the columns the "Missing required columns" line names
  calls,             \* the analysis functions main has called, in order
  report,            \* the tables printed, by analysis
  charts,            \* the chart files written
  fig_open,          \* number of matplotlib figures open
  use_inferred,      \* analyze_spending_by_category: use_inferred_category
  infer_in,          \* infer_category called directly: [description, amount]
  infer_out          \* its return value

vars == <<tool, file, args, pc, df, project_col_name, actual_group_col, diag,
          missing_named, calls, report, charts, fig_open, use_inferred,
          infer_in, infer_out>>

----------------------------------------------------------------------------
(* Bounds of the model.                                                    *)

\* longest CSV file, in rows, of the enumerated inputs
MaxRows == 3
\* longest CSV file, in rows, of the inputs of the category analysis
MaxCategoryRows == 2
\* most words in a description handed to infer_category directly
MaxWords == 2

----------------------------------------------------------------------------
(* Text.                                                                   *)

Str_Starbucks == <<"S", "t", "a", "r", "b", "u", "c", "k", "s">>
Str_Coffee == <<"C", "o", "f", "f", "e", "e">>
Str_Amazon == <<"A", "m", "a", "z", "o", "n">>
Str_order == <<"o", "r", "d", "e", "r">>
Str_Paycheck == <<"P", "a", "y", "c", "h", "e", "c", "k">>
Str_Deposit == <<"D", "e", "p", "o", "s", "i", "t">>
Str_Gas == <<"G", "a", "s">>
Str_Bill == <<"B", "i", "l", "l">>
Str_Lunch == <<"L", "u", "n", "c", "h">>
Str_Hotel == <<"H", "o", "t", "e", "l">>
Str_Income == <<"I", "n", "c", "o", "m", "e">>
Str_income == <<"i", "n", "c", "o", "m", "e">>
Str_INCOME == <<"I", "N", "C", "O", "M", "E">>
Str_Food == <<"F", "o", "o", "d">>
Str_Miscellaneous_Expense == <<"M", "i", "s", "c", "e", "l", "l", "a", "n", "e", "o", "u", "s", " ", "E", "x", "p", "e", "n", "s", "e">>
Str_nan == <<"n", "a", "n">>
Str_Dining == <<"D", "i", "n", "i", "n", "g">>
Str_Shopping == <<"S", "h", "o", "p", "p", "i", "n", "g">>
Str_Transport == <<"T", "r", "a", "n", "s", "p", "o", "r", "t">>
Str_Utilities == <<"U", "t", "i", "l", "i", "t", "i", "e", "s">>
Str_Travel == <<"T", "r", "a", "v", "e", "l">>
Str_Groceries == <<"G", "r", "o", "c", "e", "r", "i", "e", "s">>
Str_Healthcare == <<"H", "e", "a", "l", "t", "h", "c", "a", "r", "e">>
Str_Entertainment == <<"E", "n", "t", "e", "r", "t", "a", "i", "n", "m", "e", "n", "t">>
Str_Rent_Mortgage == <<"R", "e", "n", "t", "/", "M", "o", "r", "t", "g", "a", "g", "e">>

\* an empty CSV cell: pandas reads it as NaN
NULL == <<>>

\* str.lower(), character by character
UpperToLower ==
  [A |-> "a", B |-> "b", C |-> "c", D |-> "d", E |-> "e", F |-> "f", G |-> "g",
   H |-> "h", I |-> "i", J |-> "j", K |-> "k", L |-> "l", M |-> "m", N |-> "n",
   O |-> "o", P |-> "p", Q |-> "q", R |-> "r", S |-> "s", T |-> "t", U |-> "u",
   V |-> "v", W |-> "w", X |-> "x", Y |-> "y", Z |-> "z"]

LowerChar(c) == IF c \in DOMAIN UpperToLower THEN UpperToLower[c] ELSE c

RECURSIVE Lower(_)
Lower(s) == IF s = <<>> THEN <<>> ELSE <<LowerChar(Head(s))>> \o Lower(Tail(s))

\* Python's 'needle in hay' on strings
Contains(hay, needle) ==
  \E i \in 1..(Len(hay) - Len(needle) + 1) :
     \A j \in 1..Len(needle) : hay[i + j - 1] = needle[j]

\* str(description): a missing description (NaN) prints as 'nan'
PyStr(d) == IF d = NULL THEN Str_nan ELSE d

----------------------------------------------------------------------------
(* infer_category.                                                         *)

\* the dict, in insertion order
KEYWORD_CATEGORIES ==
  <<
    [category |-> <<"G", "r", "o", "c", "e", "r", "i", "e", "s">>,
     keywords |-> <<
        <<"g", "r", "o", "c", "e", "r", "y">>,
        <<"s", "u", "p", "e", "r", "m", "a", "r", "k", "e", "t">>,
        <<"m", "a", "r", "k", "e", "t">>,
        <<"f", "o", "o", "d", " ", "l", "i", "o", "n">>,
        <<"t", "r", "a", "d", "e", "r", " ", "j", "o", "e">>,
        <<"w", "a", "l", "m", "a", "r", "t">>
     >>],
    [category |-> <<"T", "r", "a", "n", "s", "p", "o", "r", "t">>,
     keywords |-> <<
        <<"u", "b", "e", "r">>,
        <<"l", "y", "f", "t">>,
        <<"t", "a", "x", "i">>,
        <<"g", "a", "s">>,
        <<"f", "u", "e", "l">>,
        <<"m", "e", "t", "r", "o">>,
        <<"s", "u", "b", "w", "a", "y">>,
        <<"b", "u", "s">>
     >>],
    [category |-> <<"U", "t", "i", "l", "i", "t", "i", "e", "s">>,
     keywords |-> <<
        <<"b", "i", "l", "l">>,
        <<"e", "l", "e", "c", "t", "r", "i", "c", "i", "t", "y">>,
        <<"w", "a", "t", "e", "r">>,
        <<"i", "n", "t", "e", "r", "n", "e", "t">>,
        <<"p", "h", "o", "n", "e">>,
        <<"g", "a", "s", " ", "c", "o", "m">>
     >>],
    [category |-> <<"D", "i", "n", "i", "n", "g">>,
     keywords |-> <<
        <<"r", "e", "s", "t", "a", "u", "r", "a", "n", "t">>,
        <<"c", "a", "f", "e">>,
        <<"d", "i", "n", "n", "e", "r">>,
        <<"l", "u", "n", "c", "h">>,
        <<"b", "r", "u", "n", "c", "h">>,
        <<"s", "t", "a", "r", "b", "u", "c", "k", "s">>
     >>],
    [category |-> <<"S", "h", "o", "p", "p", "i", "n", "g">>,
     keywords |-> <<
        <<"a", "m", "a", "z", "o", "n">>,
        <<"s", "t", "o", "r", "e">>,
        <<"s", "h", "o", "p">>,
        <<"c", "l", "o", "t", "h", "i", "n", "g">>,
        <<"e", "l", "e", "c", "t", "r", "o", "n", "i", "c", "s">>
     >>],
    [category |-> <<"H", "e", "a", "l", "t", "h", "c", "a", "r", "e">>,
     keywords |-> <<
        <<"p", "h", "a", "r", "m", "a", "c", "y">>,
        <<"d", "o", "c", "t", "o", "r">>,
        <<"h", "o", "s", "p", "i", "t", "a", "l">>,
        <<"c", "l", "i", "n", "i", "c">>
     >>],
    [category |-> <<"E", "n", "t", "e", "r", "t", "a", "i", "n", "m", "e", "n", "t">>,
     keywords |-> <<
        <<"m", "o", "v", "i", "e">>,
        <<"c", "o", "n", "c", "e", "r", "t">>,
        <<"s", "h", "o", "w">>,
        <<"g", "a", "m", "e">>
     >>],
    [category |-> <<"T", "r", "a", "v", "e", "l">>,
     keywords |-> <<
        <<"f", "l", "i", "g", "h", "t">>,
        <<"h", "o", "t", "e", "l">>,
        <<"a", "i", "r", "b", "n", "b">>,
        <<"b", "o", "o", "k", "i", "n", "g">>
     >>],
    [category |-> <<"R", "e", "n", "t", "/", "M", "o", "r", "t", "g", "a", "g", "e">>,
     keywords |-> <<
        <<"r", "e", "n", "t">>,
        <<"m", "o", "r", "t", "g", "a", "g", "e">>
     >>],
    [category |-> <<"I", "n", "c", "o", "m", "e">>,
     keywords |-> <<
        <<"s", "a", "l", "a", "r", "y">>,
        <<"d", "e", "p", "o", "s", "i", "t">>,
        <<"p", "a", "y", "c", "h", "e", "c", "k">>
     >>]
  >>

KeywordHit(i, description_lower) ==
  \E k \in 1..Len(KEYWORD_CATEGORIES[i].keywords) :
     Contains(description_lower, KEYWORD_CATEGORIES[i].keywords[k])

Min(S) == CHOOSE x \in S : \A y \in S : x <= y

Max(S) == CHOOSE x \in S : \A y \in S : x >= y

\* infer_category without the amount test of line 90: a description with an
\* Income keyword makes an expense row 'Income'
infer_category_IncomeByKeyword(description, amount) ==
  IF amount > 0 THEN Str_Income
  ELSE LET description_lower == Lower(PyStr(description))
           hits == {i \in 1..Len(KEYWORD_CATEGORIES) : KeywordHit(i, description_lower)}
       IN  IF hits = {} THEN Str_Miscellaneous_Expense
           ELSE KEYWORD_CATEGORIES[Min(hits)].category

\* infer_category that keeps looking after a match: the last matching
\* category wins
infer_category_LastMatch(description, amount) ==
  IF amount > 0 THEN Str_Income
  ELSE LET description_lower == Lower(PyStr(description))
           hits == {i \in 1..Len(KEYWORD_CATEGORIES) : KeywordHit(i, description_lower)}
       IN  IF hits = {} THEN Str_Miscellaneous_Expense
           ELSE LET category == KEYWORD_CATEGORIES[Max(hits)].category
                IN  IF category = Str_Income
                    THEN (IF amount > 0 THEN Str_Income ELSE Str_Miscellaneous_Expense)
                    ELSE category

infer_category(description, amount) ==
  IF amount > 0 THEN Str_Income
  ELSE LET description_lower == Lower(PyStr(description))
           hits == {i \in 1..Len(KEYWORD_CATEGORIES) : KeywordHit(i, description_lower)}
       IN  IF hits = {} THEN Str_Miscellaneous_Expense
           ELSE LET category == KEYWORD_CATEGORIES[Min(hits)].category
                IN  IF category = Str_Income
                    THEN (IF amount > 0 THEN Str_Income ELSE Str_Miscellaneous_Expense)
                    ELSE category

----------------------------------------------------------------------------
(* DataFrames and the pandas conversions the loaders use.                  *)

\* a loader's failure value
None == [none |-> TRUE, cols |-> {}, rows |-> <<>>]

DataFrame(cols, rows) == [none |-> FALSE, cols |-> cols, rows |-> rows]

\* raw CSV cells of the Date and the numeric columns
DateCell(d) == [t |-> "date", v |-> d]
NumCell(x) == [t |-> "num", v |-> x]
JunkCell == [t |-> "junk", v |-> 0]

\* pandas' missing timestamp; parsed dates are day numbers >= 0
NaT == -1

\* pd.to_datetime(..., errors='coerce')
to_datetime(cell) == IF cell.t = "date" THEN cell.v ELSE NaT

\* pd.to_numeric(..., errors='coerce'): NaN for what does not parse
to_numeric(cell) ==
  IF cell.t = "num" THEN [isnull |-> FALSE, v |-> cell.v]
                    ELSE [isnull |-> TRUE, v |-> 0]

\* .fillna(0)
fillna0(x) == IF x.isnull THEN 0 ELSE x.v

RECURSIVE SumSeq(_)
SumSeq(s) == IF s = <<>> THEN 0 ELSE Head(s) + SumSeq(Tail(s))

Column(rows, col) == [i \in 1..Len(rows) |-> rows[i][col]]

Range(s) == {s[i] : i \in 1..Len(s)}

Abs(x) == IF x < 0 THEN -x ELSE x

\* the ascending order of a finite set of integers
RECURSIVE SortAsc(_)
SortAsc(S) == IF S = {} THEN <<>> ELSE <<Min(S)>> \o SortAsc(S \ {Min(S)})

\* the orders sort_values(ascending=False) may leave the keys of totals in
\* (the order of equal values is not fixed)
SortedDescending(totals) ==
  LET keys == DOMAIN totals
      n    == Cardinality(keys)
  IN  {o \in [1..n -> keys] :
         /\ \A i, j \in 1..n : i # j => o[i] # o[j]
         /\ \A i \in 1..n : i < n => totals[o[i]] >= totals[o[i + 1]]}

\* the read_csv failures, shared by both loaders
ReadCsvError(f) ==
  CASE f.status = "not_found"  -> <<"Error: File not found">>
    [] f.status = "empty"      -> <<"Error: CSV file is empty">>
    [] f.status = "unreadable" -> <<"Error reading CSV file">>
    [] OTHER                   -> <<>>

----------------------------------------------------------------------------
(* personal_finance_analyzer.py                                            *)

FinanceRequiredCols == {"Date", "Description", "Amount"}

\* line 28
FinanceMissingCols(cols) == {col \in FinanceRequiredCols : col \notin cols}

\* dropna without inplace=True or an assignment: nothing is dropped
FinanceDropnaKeeps_Nothing(r) == TRUE

\* line 37: dropna(subset=['Date']) keeps the rows whose Date is not missing
FinanceDropnaKeeps(r) == r.Date # NaT

load_finance_data(f) ==
  IF f.status # "ok"
  THEN [df |-> None, diag |-> ReadCsvError(f), missing |-> {}]
  ELSE LET missing_cols == FinanceMissingCols(f.cols)
       IN  IF missing_cols # {}
           THEN [df |-> None, diag |-> <<"Error: Missing required columns">>,
                 missing |-> missing_cols]
           ELSE LET coerced == [i \in 1..Len(f.rows) |->
                                  [f.rows[i] EXCEPT !.Date = to_datetime(@),
                                                    !.Amount = fillna0(to_numeric(@))]]
                    kept == SelectSeq(coerced, FinanceDropnaKeeps)
                IN  [df |-> DataFrame(f.cols, kept), diag |-> <<>>, missing |-> {}]

\* calculate_summary_stats of the finance tool: both branches compute the same
FinanceSummary(d) ==
  LET income   == SelectSeq(d.rows, LAMBDA r : r.Amount > 0)
      expenses == SelectSeq(d.rows, LAMBDA r : r.Amount < 0)
      total_income   == SumSeq(Column(income, "Amount"))
      total_expenses == SumSeq(Column(expenses, "Amount")) * (-1)
  IN  [total_income |-> total_income, total_expenses |-> total_expenses,
       net_savings |-> total_income - total_expenses]

----------------------------------------------------------------------------
(* The comparison  nulls > 0.7 * len(expenses_df)  of line 111.  0.7 is a  *)
(* Python float, so the product is an IEEE-754 double: the exact product   *)
(* of len and the double nearest 0.7, rounded to 53 significant bits, ties *)
(* to even.  Naturals are bit tuples, least significant bit first, since   *)
(* the 53-bit significand does not fit TLC's integers.                     *)

\* significant bits of a double
SignificandBits == 53

\* the double nearest 0.7 is 0x16666666666666 * 2^-53: its significand
Double_0_7 ==
  <<0, 1, 1, 0, 0, 1, 1, 0, 0, 1, 1, 0, 0, 1, 1, 0, 0, 1, 1, 0, 0, 1, 1, 0, 0, 1, 1, 0, 0, 1, 1, 0, 0, 1, 1, 0, 0, 1, 1, 0, 0, 1, 1, 0, 0, 1, 1, 0, 0, 1, 1, 0, 1>>

RECURSIVE Bits(_)
Bits(n) == IF n = 0 THEN <<>> ELSE <<n % 2>> \o Bits(n \div 2)

Zeros(k) == [i \in 1..k |-> 0]

RECURSIVE Trim(_)
Trim(b) ==
  IF b # <<>> /\ b[Len(b)] = 0 THEN Trim(SubSeq(b, 1, Len(b) - 1)) ELSE b

RECURSIVE AddBits(_, _, _)
AddBits(a, b, carry) ==
  IF a = <<>> /\ b = <<>>
  THEN (IF carry = 0 THEN <<>> ELSE <<1>>)
  ELSE LET x == IF a = <<>> THEN 0 ELSE Head(a)
           y == IF b = <<>> THEN 0 ELSE Head(b)
           s == x + y + carry
       IN  <<s % 2>> \o AddBits(IF a = <<>> THEN <<>> ELSE Tail(a),
                                 IF b = <<>> THEN <<>> ELSE Tail(b),
                                 s \div 2)

RECURSIVE MulBits(_, _)
MulBits(a, n) ==
  IF n = 0 THEN <<>>
  ELSE Trim(AddBits(IF n % 2 = 1 THEN a ELSE <<>>,
                    <<0>> \o MulBits(a, n \div 2), 0))

\* round a natural to SignificandBits significant bits, ties to even
RoundToDouble(p) ==
  IF Len(p) <= SignificandBits THEN p
  ELSE LET s      == Len(p) - SignificandBits
           kept   == SubSeq(p, s + 1, Len(p))
           half   == p[s] = 1
           sticky == \E i \in 1..(s - 1) : p[i] = 1
           up     == half /\ (sticky \/ kept[1] = 1)
       IN  Zeros(s) \o (IF up THEN AddBits(kept, <<1>>, 0) ELSE kept)

GtBits(a, b) ==
  \/ Len(a) > Len(b)
  \/ /\ Len(a) = Len(b)
     /\ \E i \in 1..Len(a) :
          /\ a[i] = 1
          /\ b[i] = 0
          /\ \A j \in (i + 1)..Len(a) : a[j] = b[j]

\* count > 0.7 * length, as Python evaluates it (both scaled by 2^53)
ExceedsSeventyPercent(count, length) ==
  GtBits(Trim(Zeros(SignificandBits) \o Bits(count)),
         Trim(RoundToDouble(MulBits(Double_0_7, length))))

----------------------------------------------------------------------------
(* analyze_spending_by_category                                            *)

CategoryEarly(msgs) ==
  [printed |-> FALSE, diag |-> msgs, use_inferred |-> FALSE,
   totals |-> <<>>]

\* lines 140: groupby(cat)['Amount'].sum().abs(); groupby drops the rows
\* whose key is missing (NaN)
GroupTotals(rows, cats) ==
  LET keys == {cats[i] : i \in 1..Len(rows)} \ {NULL}
  IN  [k \in keys |->
         Abs(SumSeq(Column(SelectSeq([i \in 1..Len(rows) |->
                                        [Amount |-> rows[i].Amount, cat |-> cats[i]]],
                                     LAMBDA r : r.cat = k),
                           "Amount")))]

\* lines 113-125: the inferred branch
InferredBranch(expenses_df) ==
  LET labelled == [i \in 1..Len(expenses_df) |->
                     [row |-> expenses_df[i],
                      cat |-> infer_category(expenses_df[i].Description,
                                             expenses_df[i].Amount)]]
      kept     == SelectSeq(labelled, LAMBDA r : r.cat # Str_Income)
      nunique  == Cardinality(Range(Column(kept, "cat")))
      notice   == <<"Category column is missing or largely empty. Inferring.">>
      vague    == nunique = 0
                  \/ (nunique = 1 /\ kept[1].cat = Str_Miscellaneous_Expense)
  IN  [rows |-> Column(kept, "row"), cats |-> Column(kept, "cat"),
       stop |-> nunique = 0,
       diag |-> notice
                \o (IF vague THEN <<"Could not infer meaningful categories">> ELSE <<>>)
                \o (IF nunique = 0 THEN <<"No categories found or inferred">> ELSE <<>>)]

\* lines 127-129: the explicit branch
ExplicitBranch(expenses_df, cat_col_to_use) ==
  LET lowered == [i \in 1..Len(expenses_df) |-> Lower(expenses_df[i][cat_col_to_use])]
      kept    == IF Str_income \in Range(lowered)
                 THEN SelectSeq(expenses_df,
                                LAMBDA r : Lower(r[cat_col_to_use]) # Str_income)
                 ELSE expenses_df
  IN  [rows |-> kept, cats |-> Column(kept, cat_col_to_use),
       stop |-> FALSE, diag |-> <<>>]

\* line 111: which category column to use
UseInferredCategory(d, expenses_df, category_col) ==
  \/ category_col \notin d.cols
  \/ ExceedsSeventyPercent(
       Len(SelectSeq(expenses_df, LAMBDA r : r[category_col] = NULL)),
       Len(expenses_df))

analyze_spending_by_category(d, category_col) ==
  IF d.none \/ d.rows = <<>>
  THEN CategoryEarly(<<"No data available for category analysis.">>)
  ELSE
  LET expenses_df == SelectSeq(d.rows, LAMBDA r : r.Amount < 0)
  IN  IF expenses_df = <<>>
      THEN CategoryEarly(<<"No expense data available for category analysis.">>)
      ELSE
      LET inferred == UseInferredCategory(d, expenses_df, category_col)
          b == IF inferred THEN InferredBranch(expenses_df)
                           ELSE ExplicitBranch(expenses_df, category_col)
      IN  IF b.stop
          THEN CategoryEarly(b.diag)
          ELSE IF b.rows = <<>> \/ Range(b.cats) \ {NULL} = {}
          THEN [CategoryEarly(b.diag \o <<"No expense data available after filtering.">>)
                  EXCEPT !.use_inferred = inferred]
          ELSE [printed |-> TRUE, diag |-> b.diag, use_inferred |-> inferred,
                totals |-> GroupTotals(b.rows, b.cats)]

----------------------------------------------------------------------------
(* analyze_monthly_trends                                                  *)

DaysInMonth == <<31, 29, 31, 30, 31, 30, 31, 31, 30, 31, 30, 31>>

RECURSIVE MonthOf(_, _)
MonthOf(day, m) ==
  IF day < DaysInMonth[m] THEN m ELSE MonthOf(day - DaysInMonth[m], m + 1)

\* .dt.to_period('M'): the month of a date of 2024, as 2024 * 100 + month
to_period_M(day) == 2024 * 100 + MonthOf(day, 1)

\* the Expenses column without .abs(): expenses stay negative
MonthlyRow_SignedExpenses(r) ==
  [YearMonth |-> to_period_M(r.Date),
   Income    |-> IF r.Amount > 0 THEN [isnull |-> FALSE, v |-> r.Amount]
                                 ELSE [isnull |-> TRUE, v |-> 0],
   Expenses  |-> IF r.Amount < 0 THEN [isnull |-> FALSE, v |-> r.Amount]
                                 ELSE [isnull |-> TRUE, v |-> 0]]

\* lines 176-180: the YearMonth, Income and Expenses columns of a row; a
\* cell of Income or Expenses is missing (NaN) where the mask is false
MonthlyRow(r) ==
  [YearMonth |-> to_period_M(r.Date),
   Income    |-> IF r.Amount > 0 THEN [isnull |-> FALSE, v |-> r.Amount]
                                 ELSE [isnull |-> TRUE, v |-> 0],
   Expenses  |-> IF r.Amount < 0 THEN [isnull |-> FALSE, v |-> Abs(r.Amount)]
                                 ELSE [isnull |-> TRUE, v |-> 0]]

\* groupby('YearMonth').agg(sum): sum skips the missing (NaN) cells
analyze_monthly_trends(d) ==
  IF d.none \/ d.rows = <<>>
  THEN [printed |-> FALSE, table |-> <<>>,
        diag |-> <<"No data available for monthly trend analysis.">>]
  ELSE
  LET monthly_df == [i \in 1..Len(d.rows) |-> MonthlyRow(d.rows[i])]
      months == SortAsc(Range(Column(monthly_df, "YearMonth")))
      Total(ym, col) ==
        SumSeq([i \in 1..Len(SelectSeq(monthly_df, LAMBDA r : r.YearMonth = ym)) |->
                  fillna0(SelectSeq(monthly_df, LAMBDA r : r.YearMonth = ym)[i][col])])
  IN  [printed |-> TRUE, diag |-> <<>>,
       table |-> [k \in 1..Len(months) |->
                    [YearMonth     |-> months[k],
                     TotalIncome   |-> Total(months[k], "Income"),
                     TotalExpenses |-> Total(months[k], "Expenses"),
                     NetSavings    |-> Total(months[k], "Income")
                                       - Total(months[k], "Expenses")]]]

----------------------------------------------------------------------------
(* time_tracking_analyzer.py                                               *)

\* one-letter project and task names
Str_A == <<"A">>
Str_B == <<"B">>

TimeRequiredCols == {"Date", "Duration"}

project_col_options == <<"Project", "Task">>

\* lines 36-41: the first of Project, Task the file has; "None" if neither
DetectProjectCol(cols) ==
  LET present == {i \in 1..Len(project_col_options) : project_col_options[i] \in cols}
  IN  IF present = {} THEN "None" ELSE project_col_options[Min(present)]

\* a check that names every required column once one is absent
TimeMissingCols_NamesAll(cols) ==
  IF \E col \in TimeRequiredCols : col \notin cols THEN TimeRequiredCols ELSE {}

\* line 30
TimeMissingCols(cols) == {col \in TimeRequiredCols : col \notin cols}

load_time_data(f) ==
  IF f.status # "ok"
  THEN [df |-> None, project_col_name |-> "None", diag |-> ReadCsvError(f),
        missing |-> {}]
  ELSE
  LET missing_cols == TimeMissingCols(f.cols)
      project_col  == DetectProjectCol(f.cols)
  IN  IF missing_cols # {}
      THEN [df |-> None, project_col_name |-> "None",
            diag |-> <<"Error: Missing required columns">>, missing |-> missing_cols]
      ELSE IF project_col = "None"
      THEN [df |-> None, project_col_name |-> "None",
            diag |-> <<"Error: Missing one of the required project/task columns">>,
            missing |-> Range(project_col_options)]
      ELSE
      LET coerced == [i \in 1..Len(f.rows) |->
                        [f.rows[i] EXCEPT !.Date = to_datetime(@),
                                          !.Duration = to_numeric(@)]]
          kept    == SelectSeq(coerced, LAMBDA r : r.Date # NaT /\ ~r.Duration.isnull)
          rows    == [i \in 1..Len(kept) |-> [kept[i] EXCEPT !.Duration = @.v]]
          note    == <<"Note: Assuming 'Duration' column is in hours.">>
      IN  IF rows = <<>>
          THEN [df |-> None, project_col_name |-> "None",
                diag |-> note \o <<"No valid data remaining">>, missing |-> {}]
          ELSE [df |-> DataFrame(f.cols, rows), project_col_name |-> project_col,
                diag |-> note, missing |-> {}]

\* calculate_summary_stats of the time tool; the average is total / days
TimeSummary(d) ==
  IF d.none \/ d.rows = <<>>
  THEN [printed |-> FALSE, diag |-> <<"No data available for summary statistics.">>,
        stats |-> <<>>]
  ELSE LET dates == Range(Column(d.rows, "Date"))
       IN  [printed |-> TRUE, diag |-> <<>>,
            stats |-> <<[total_time_tracked |-> SumSeq(Column(d.rows, "Duration")),
                         date_range_start   |-> Min(dates),
                         date_range_end     |-> Max(dates),
                         num_unique_days    |-> Cardinality(dates)]>>]

\* groupby(main_group_col)['Duration'].sum(): rows with a missing key are dropped
analyze_time_allocation(d, main_group_col) ==
  IF d.none \/ d.rows = <<>>
  THEN [printed |-> FALSE, totals |-> <<>>,
        diag |-> <<"No data available for time allocation analysis.">>]
  ELSE IF main_group_col \notin d.cols
  THEN [printed |-> FALSE, totals |-> <<>>,
        diag |-> <<"Error: Grouping column not found for time allocation analysis.">>]
  ELSE
  LET keys == Range(Column(d.rows, main_group_col)) \ {NULL}
      time_by_group ==
        [k \in keys |->
           SumSeq(Column(SelectSeq(d.rows, LAMBDA r : r[main_group_col] = k),
                         "Duration"))]
  IN  IF keys = {}
      THEN [printed |-> FALSE, totals |-> <<>>,
            diag |-> <<"No time data found for any groups in column.">>]
      ELSE [printed |-> TRUE, totals |-> time_by_group, diag |-> <<>>]

\* The bin of pandas' rule 'W-MON': weekly bins are closed and labelled on
\* the right, so a date falls in the bin of the first Monday on or after
\* it.  Day 0 is a Monday.
WeekMonBin(day) == CHOOSE m \in day..(day + 6) : m % 7 = 0

\* resample(rule).sum(): one bin per period from the first date's bin to the
\* last date's, the empty ones included, their sum 0
Resample(rows, period) ==
  LET bin(day) == IF period = "W" THEN WeekMonBin(day) ELSE day
      step     == IF period = "W" THEN 7 ELSE 1
      bins     == {bin(rows[i].Date) : i \in 1..Len(rows)}
      labels   == {b \in Min(bins)..Max(bins) : (b - Min(bins)) % step = 0}
      ordered  == SortAsc(labels)
  IN  [k \in 1..Len(ordered) |->
         [period   |-> ordered[k],
          Duration |-> SumSeq(Column(SelectSeq(rows,
                                LAMBDA r : bin(r.Date) = ordered[k]), "Duration"))]]

analyze_time_trends(d, period) ==
  IF d.none \/ d.rows = <<>>
  THEN [printed |-> FALSE, table |-> <<>>,
        diag |-> <<"No data available for time trend analysis.">>]
  ELSE [printed |-> TRUE, table |-> Resample(d.rows, period), diag |-> <<>>]

\* chart_filename of analyze_time_allocation: the lower-cased column name
AllocationChart(main_group_col) ==
  CASE main_group_col = "Project" -> "time_allocation_by_project.png"
    [] main_group_col = "Task"    -> "time_allocation_by_task.png"
    [] OTHER                      -> "time_allocation_by_other.png"

TrendChart(period) ==
  IF period = "D" THEN "daily_time_trend.png" ELSE "weekly_time_trend.png"

----------------------------------------------------------------------------
(* The runs: main of each tool, one action per call.                       *)

EmptyReport ==
  [printed |-> {}, summary |-> <<>>, spending_by_cat |-> <<>>,
   monthly_summary |-> <<>>, time_by_group |-> <<>>, time_over_period |-> <<>>]

DefaultArgs == [group_by |-> "Project", trend_period |-> "D"]

NoInferInput == [description |-> NULL, amount |-> 0]

\* the state as a run of tool t on file f with arguments a begins
Start(t, f, a, i) ==
  /\ tool = t
  /\ file = f
  /\ args = a
  /\ infer_in = i
  /\ pc = "start"
  /\ df = None
  /\ project_col_name = "None"
  /\ actual_group_col = "None"
  /\ diag = <<>>
  /\ missing_named = {}
  /\ calls = <<>>
  /\ report = EmptyReport
  /\ charts = {}
  /\ fig_open = 0
  /\ use_inferred = FALSE
  /\ infer_out = NULL

\* the try/except around plt.savefig: the message printed, by chart file
SaveMessage(chart_filename, save_ok) ==
  IF save_ok
  THEN CASE chart_filename = "spending_by_category.png"
              -> <<"Bar chart 'spending_by_category.png' saved successfully.">>
         [] chart_filename = "monthly_trends.png"
              -> <<"Line chart 'monthly_trends.png' saved successfully.">>
         [] chart_filename = "daily_time_trend.png"
              -> <<"Line chart 'daily_time_trend.png' saved successfully.">>
         [] chart_filename = "weekly_time_trend.png"
              -> <<"Line chart 'weekly_time_trend.png' saved successfully.">>
         [] OTHER
              -> <<"Bar chart 'time_allocation_by_<column>.png' saved successfully.">>
  ELSE CASE chart_filename = "spending_by_category.png"
              -> <<"Error saving spending by category chart">>
         [] chart_filename = "monthly_trends.png"
              -> <<"Error saving monthly trends chart">>
         [] chart_filename = "daily_time_trend.png"
              -> <<"Error saving daily time trend chart">>
         [] chart_filename = "weekly_time_trend.png"
              -> <<"Error saving weekly time trend chart">>
         [] OTHER
              -> <<"Error saving time allocation chart">>

\* an analysis that returns before plt.figure: nothing is drawn or saved
NoChart(figs, files) ==
  [diag |-> <<>>, charts |-> files, fig_open |-> figs, escaped |-> FALSE]

\* the chart step with no except clause: the exception of plt.savefig
\* leaves the function, plt.close is not reached
SaveChart_Uncaught(chart_filename, save_ok, figs, files) ==
  LET figure  == figs + 1
      raised  == ~save_ok
      escaped == raised
  IN  [diag     |-> IF escaped THEN <<>> ELSE SaveMessage(chart_filename, save_ok),
       charts   |-> IF raised THEN files ELSE files \cup {chart_filename},
       fig_open |-> IF escaped THEN figure ELSE figure - 1,
       escaped  |-> escaped]

\* the chart step of an analysis: plt.figure opens a figure, plt.savefig
\* writes the file or raises, except Exception catches what it raises and
\* prints the error, plt.close closes the figure
SaveChart(chart_filename, save_ok, figs, files) ==
  LET figure  == figs + 1
      raised  == ~save_ok
      caught  == raised
      escaped == raised /\ ~caught
  IN  [diag     |-> IF escaped THEN <<>> ELSE SaveMessage(chart_filename, save_ok),
       charts   |-> IF raised THEN files ELSE files \cup {chart_filename},
       fig_open |-> IF escaped THEN figure ELSE figure - 1,
       escaped  |-> escaped]

\* main has no try: an exception that leaves an analysis ends the run
AfterAnalysis(escaped, next_pc) == IF escaped THEN "crashed" ELSE next_pc

(* ---- finance: main, lines 245-253 ---- *)

FinLoad ==
  /\ tool = "finance"
  /\ pc = "start"
  /\ LET r == load_finance_data(file)
     IN  /\ df' = r.df
         /\ diag' = diag \o r.diag
         /\ missing_named' = r.missing
  /\ pc' = "loaded"
  /\ UNCHANGED <<tool, file, args, project_col_name, actual_group_col, calls,
                 report, charts, fig_open, use_inferred, infer_in, infer_out>>

FinExit ==
  /\ tool = "finance"
  /\ pc = "loaded"
  /\ df.none
  /\ diag' = Append(diag, "Failed to load or validate financial data. Exiting.")
  /\ pc' = "done"
  /\ UNCHANGED <<tool, file, args, df, project_col_name, actual_group_col,
                 missing_named, calls, report, charts, fig_open, use_inferred,
                 infer_in, infer_out>>

FinSummary ==
  /\ tool = "finance"
  /\ pc = "loaded"
  /\ ~df.none
  /\ calls' = Append(calls, "calculate_summary_stats")
  /\ report' = [report EXCEPT !.printed = @ \cup {"summary"},
                              !.summary = <<FinanceSummary(df)>>]
  /\ diag' = diag \o (IF "Type" \in df.cols
                      THEN <<"Note: 'Type' column detected.">> ELSE <<>>)
  /\ pc' = "summarized"
  /\ UNCHANGED <<tool, file, args, df, project_col_name, actual_group_col,
                 missing_named, charts, fig_open, use_inferred, infer_in,
                 infer_out>>

FinCategory ==
  /\ tool = "finance"
  /\ pc = "summarized"
  /\ \E save_ok \in BOOLEAN :
       LET r == analyze_spending_by_category(df, "Category")
       IN  \E order \in SortedDescending(r.totals) :
             /\ calls' = Append(calls, "analyze_spending_by_category")
             /\ use_inferred' = r.use_inferred
             /\ report' =
                  IF r.printed
                  THEN [report EXCEPT
                          !.printed = @ \cup {"spending_by_cat"},
                          !.spending_by_cat =
                             [i \in 1..Len(order) |->
                                [category |-> order[i], total |-> r.totals[order[i]]]]]
                  ELSE report
             /\ LET c == IF r.printed
                         THEN SaveChart("spending_by_category.png", save_ok,
                                        fig_open, charts)
                         ELSE NoChart(fig_open, charts)
                IN  /\ diag' = diag \o r.diag \o c.diag
                    /\ charts' = c.charts
                    /\ fig_open' = c.fig_open
                    /\ pc' = AfterAnalysis(c.escaped, "categorized")
  /\ UNCHANGED <<tool, file, args, df, project_col_name, actual_group_col,
                 missing_named, infer_in, infer_out>>

FinMonthly ==
  /\ tool = "finance"
  /\ pc = "categorized"
  /\ \E save_ok \in BOOLEAN :
       LET r == analyze_monthly_trends(df)
       IN  /\ calls' = Append(calls, "analyze_monthly_trends")
           /\ report' = IF r.printed
                        THEN [report EXCEPT !.printed = @ \cup {"monthly_summary"},
                                            !.monthly_summary = r.table]
                        ELSE report
           /\ LET c == IF r.printed
                       THEN SaveChart("monthly_trends.png", save_ok,
                                      fig_open, charts)
                       ELSE NoChart(fig_open, charts)
              IN  /\ diag' = diag \o r.diag \o c.diag
                  /\ charts' = c.charts
                  /\ fig_open' = c.fig_open
                  /\ pc' = AfterAnalysis(c.escaped, "done")
  /\ UNCHANGED <<tool, file, args, df, project_col_name, actual_group_col,
                 missing_named, use_inferred, infer_in, infer_out>>

NextFinance == FinLoad \/ FinExit \/ FinSummary \/ FinCategory \/ FinMonthly

(* ---- time tracking: main, lines 185-207 ---- *)

TimeLoad ==
  /\ tool = "time"
  /\ pc = "start"
  /\ LET r == load_time_data(file)
     IN  /\ df' = r.df
         /\ project_col_name' = r.project_col_name
         /\ diag' = diag \o r.diag
         /\ missing_named' = r.missing
  /\ pc' = "loaded"
  /\ UNCHANGED <<tool, file, args, actual_group_col, calls, report, charts,
                 fig_open, use_inferred, infer_in, infer_out>>

TimeExit ==
  /\ tool = "time"
  /\ pc = "loaded"
  /\ df.none
  /\ diag' = Append(diag, "Failed to load or validate time data. Exiting.")
  /\ pc' = "done"
  /\ UNCHANGED <<tool, file, args, df, project_col_name, actual_group_col,
                 missing_named, calls, report, charts, fig_open, use_inferred,
                 infer_in, infer_out>>

\* main taking the error branch of line 198 whenever it falls back: the
\* analyses are skipped
ResolveGroupCol_SkipOnFallback(group_by, cols, project_col) ==
  LET fallback == group_by \notin cols
      col      == IF fallback THEN project_col ELSE group_by
  IN  [col  |-> col,
       run  |-> ~fallback,
       diag |-> IF fallback
                THEN <<"Warning: Specified group_by column not found. Defaulting.">>
                ELSE <<>>]

\* lines 192-199: the grouping column main uses, and whether the analyses run
ResolveGroupCol(group_by, cols, project_col) ==
  LET fallback == group_by \notin cols
      col      == IF fallback THEN project_col ELSE group_by
  IN  [col  |-> col,
       run  |-> col \in cols,
       diag |-> (IF fallback
                 THEN <<"Warning: Specified group_by column not found. Defaulting.">>
                 ELSE <<>>)
                \o (IF col \notin cols
                    THEN <<"Error: Default project column also not found.">>
                    ELSE <<>>)]

TimeResolve ==
  /\ tool = "time"
  /\ pc = "loaded"
  /\ ~df.none
  /\ LET r == ResolveGroupCol(args.group_by, df.cols, project_col_name)
     IN  /\ actual_group_col' = r.col
         /\ diag' = diag \o r.diag
         /\ pc' = IF r.run THEN "resolved" ELSE "done"
  /\ UNCHANGED <<tool, file, args, df, project_col_name, missing_named, calls,
                 report, charts, fig_open, use_inferred, infer_in, infer_out>>

TimeSummaryStep ==
  /\ tool = "time"
  /\ pc = "resolved"
  /\ LET r == TimeSummary(df)
     IN  /\ report' = IF r.printed
                      THEN [report EXCEPT !.printed = @ \cup {"summary"},
                                          !.summary = r.stats]
                      ELSE report
         /\ diag' = diag \o r.diag
  /\ calls' = Append(calls, "calculate_summary_stats")
  /\ pc' = "summarized"
  /\ UNCHANGED <<tool, file, args, df, project_col_name, actual_group_col,
                 missing_named, charts, fig_open, use_inferred, infer_in,
                 infer_out>>

TimeAllocation ==
  /\ tool = "time"
  /\ pc = "summarized"
  /\ \E save_ok \in BOOLEAN :
       LET r == analyze_time_allocation(df, actual_group_col)
       IN  \E order \in SortedDescending(r.totals) :
             /\ report' =
                  IF r.printed
                  THEN [report EXCEPT
                          !.printed = @ \cup {"time_by_group"},
                          !.time_by_group =
                             [i \in 1..Len(order) |->
                                [group |-> order[i], total |-> r.totals[order[i]]]]]
                  ELSE report
             /\ LET c == IF r.printed
                         THEN SaveChart(AllocationChart(actual_group_col),
                                        save_ok, fig_open, charts)
                         ELSE NoChart(fig_open, charts)
                IN  /\ diag' = diag \o r.diag \o c.diag
                    /\ charts' = c.charts
                    /\ fig_open' = c.fig_open
                    /\ pc' = AfterAnalysis(c.escaped, "allocated")
  /\ calls' = Append(calls, "analyze_time_allocation")
  /\ UNCHANGED <<tool, file, args, df, project_col_name, actual_group_col,
                 missing_named, use_inferred, infer_in, infer_out>>

TimeTrends ==
  /\ tool = "time"
  /\ pc = "allocated"
  /\ \E save_ok \in BOOLEAN :
       LET r == analyze_time_trends(df, args.trend_period)
       IN  /\ report' = IF r.printed
                        THEN [report EXCEPT !.printed = @ \cup {"time_over_period"},
                                            !.time_over_period = r.table]
                        ELSE report
           /\ LET c == IF r.printed
                       THEN SaveChart(TrendChart(args.trend_period), save_ok,
                                      fig_open, charts)
                       ELSE NoChart(fig_open, charts)
              IN  /\ diag' = diag \o r.diag \o c.diag
                  /\ charts' = c.charts
                  /\ fig_open' = c.fig_open
                  /\ pc' = AfterAnalysis(c.escaped, "done")
  /\ calls' = Append(calls, "analyze_time_trends")
  /\ UNCHANGED <<tool, file, args, df, project_col_name, actual_group_col,
                 missing_named, use_inferred, infer_in, infer_out>>

NextTime ==
  TimeLoad \/ TimeExit \/ TimeResolve \/ TimeSummaryStep \/ TimeAllocation
  \/ TimeTrends

(* ---- infer_category called on its own ---- *)

Infer ==
  /\ tool = "infer"
  /\ pc = "start"
  /\ infer_out' = infer_category(infer_in.description, infer_in.amount)
  /\ pc' = "done"
  /\ UNCHANGED <<tool, file, args, df, project_col_name, actual_group_col,
                 diag, missing_named, calls, report, charts, fig_open,
                 use_inferred, infer_in>>

----------------------------------------------------------------------------
(* The inputs of the runs.                                                 *)

SeqsUpTo(S, n) == UNION {[1..k -> S] : k \in 0..n}

File(cols, rows) == [status |-> "ok", cols |-> cols, rows |-> rows]

UnreadableFiles ==
  {[status |-> st, cols |-> {}, rows |-> <<>>] :
     st \in {"not_found", "empty", "unreadable"}}

FinRow(date, description, amount, category) ==
  [Date |-> date, Description |-> description, Amount |-> amount,
   Category |-> category]

TimeRow(date, duration, project, task) ==
  [Date |-> date, Duration |-> duration, Project |-> project, Task |-> task]

RECURSIVE Join(_)
Join(words) ==
  IF Len(words) = 1 THEN words[1]
  ELSE words[1] \o <<" ">> \o Join(Tail(words))

Str_Starbucks_Coffee == Join(<<Str_Starbucks, Str_Coffee>>)
Str_Paycheck_Deposit == Join(<<Str_Paycheck, Str_Deposit>>)
Str_Amazon_order == Join(<<Str_Amazon, Str_order>>)

(* ---- both tools, files that load or fail to ---- *)

FinanceColumns == {"Date", "Description", "Amount", "Category"}

FinanceLoadRows ==
  {FinRow(d, Str_Starbucks_Coffee, a, NULL) :
     d \in {JunkCell, DateCell(4)},
     a \in {JunkCell, NumCell(-2), NumCell(3)}}

FinanceLoadFiles ==
  UnreadableFiles
  \cup {File(cols, <<FinRow(DateCell(4), Str_Starbucks_Coffee, NumCell(-2), NULL)>>) :
          cols \in {c \in SUBSET FinanceColumns : c # {} /\ ~(FinanceRequiredCols \subseteq c)}}
  \cup {File(cols, rows) :
          cols \in {FinanceRequiredCols, FinanceRequiredCols \cup {"Category"},
                    FinanceRequiredCols \cup {"Type"}},
          rows \in SeqsUpTo(FinanceLoadRows, MaxRows)}

TimeColumns == {"Date", "Duration", "Project", "Task"}

TimeLoadRows ==
  {TimeRow(JunkCell, NumCell(2), Str_A, Str_B),
   TimeRow(DateCell(0), JunkCell, Str_A, Str_B),
   TimeRow(DateCell(0), NumCell(2), Str_A, Str_B),
   TimeRow(DateCell(8), NumCell(3), Str_B, Str_A),
   TimeRow(DateCell(0), NumCell(1), NULL, NULL)}

TimeLoads(c) ==
  /\ TimeRequiredCols \subseteq c
  /\ c \cap Range(project_col_options) # {}

TimeLoadFiles ==
  UnreadableFiles
  \cup {File(cols, <<TimeRow(DateCell(0), NumCell(2), Str_A, Str_B)>>) :
          cols \in {c \in SUBSET TimeColumns : c # {} /\ ~TimeLoads(c)}}
  \cup {File(cols, rows) :
          cols \in {c \in SUBSET TimeColumns : TimeLoads(c)},
          rows \in SeqsUpTo(TimeLoadRows, MaxRows)}

TimeArgs ==
  [group_by : {"Project", "Task", "Client"}, trend_period : {"D", "W"}]

Init ==
  \/ \E f \in FinanceLoadFiles : Start("finance", f, DefaultArgs, NoInferInput)
  \/ \E f \in TimeLoadFiles, a \in TimeArgs : Start("time", f, a, NoInferInput)

Next == NextFinance \/ NextTime

Spec == Init /\ [][Next]_vars

(* ---- finance, files that exercise the category analysis ---- *)

\* files without a Category column: the categories are inferred
InferredRows ==
  {FinRow(DateCell(4), d, NumCell(a), NULL) :
     d \in {Str_Starbucks_Coffee, Str_Paycheck_Deposit, NULL},
     a \in {-2, -1}}
  \cup {FinRow(DateCell(4), Str_Paycheck_Deposit, NumCell(3), NULL)}

\* files with a Category column
ExplicitRows ==
  {FinRow(DateCell(4), Str_Paycheck_Deposit, NumCell(a), c) :
     a \in {-2, -1},
     c \in {NULL, Str_Food, Str_Income, Str_INCOME}}
  \cup {FinRow(DateCell(4), Str_Paycheck_Deposit, NumCell(3), Str_Income)}

\* count expense rows with an empty Category, then length - count with one
ThresholdRows(count, length) ==
  [i \in 1..length |->
     FinRow(DateCell(4), Str_Starbucks_Coffee, NumCell(-1),
            IF i <= count THEN NULL ELSE Str_Food)]

\* the files at the 70% threshold: 10 and 90 expense rows
ThresholdFiles ==
  {File(FinanceColumns, ThresholdRows(count, length)) :
     length \in {10, 90},
     count \in {6, 7, 8, 62, 63, 64}}

CategoryFiles ==
  {File(FinanceRequiredCols, rows) : rows \in SeqsUpTo(InferredRows, MaxCategoryRows)}
  \cup {File(FinanceColumns, rows) : rows \in SeqsUpTo(ExplicitRows, MaxCategoryRows)}
  \cup ThresholdFiles
  \cup {File({"Date", "Description"}, <<>>)}

InitCategory ==
  \E f \in CategoryFiles : Start("finance", f, DefaultArgs, NoInferInput)

SpecCategory == InitCategory /\ [][NextFinance]_vars

(* ---- finance, files that exercise the monthly trends ---- *)

\* Jan 5, Jan 31, Feb 1
MonthlyRows ==
  {FinRow(DateCell(c[1]), Str_Starbucks_Coffee, c[2], NULL) :
     c \in {<<4, NumCell(-2)>>, <<4, NumCell(3)>>, <<30, NumCell(-1)>>,
            <<30, JunkCell>>, <<31, NumCell(-2)>>, <<31, NumCell(3)>>,
            <<31, NumCell(0)>>}}

MonthlyFiles ==
  {File(FinanceRequiredCols, rows) : rows \in SeqsUpTo(MonthlyRows, MaxRows)}
  \cup {File({"Date", "Description"}, <<>>)}

InitMonthly ==
  \E f \in MonthlyFiles : Start("finance", f, DefaultArgs, NoInferInput)

SpecMonthly == InitMonthly /\ [][NextFinance]_vars

(* ---- time tracking, files that exercise the trends ---- *)

\* Mon Jan 1, Sun Jan 7, Mon Jan 8, Tue Jan 23
WeeklyRows ==
  {TimeRow(DateCell(d), NumCell(h), Str_A, Str_B) :
     d \in {0, 6, 7, 22},
     h \in {1, 2}}

WeeklyFiles ==
  {File(TimeColumns, rows) : rows \in SeqsUpTo(WeeklyRows, MaxRows)}

InitWeekly ==
  \E f \in WeeklyFiles, p \in {"D", "W"} :
     Start("time", f, [group_by |-> "Project", trend_period |-> p], NoInferInput)

SpecWeekly == InitWeekly /\ [][NextTime]_vars

(* ---- infer_category on its own ---- *)

Words ==
  {Str_Starbucks, Str_Coffee, Str_Amazon, Str_order, Str_Paycheck, Str_Deposit,
   Str_Gas, Str_Bill, Str_Lunch, Str_Hotel}

Descriptions ==
  {NULL} \cup {Join(ws) : ws \in SeqsUpTo(Words, MaxWords) \ {<<>>}}

InitInfer ==
  \E d \in Descriptions, a \in {-5, 0, 7} :
     Start("infer", File({"Description", "Amount"}, <<>>), DefaultArgs, [description |-> d, amount |-> a])

SpecInfer == InitInfer /\ [][Infer]_vars

----------------------------------------------------------------------------
(* Properties.                                                             *)

\* the sum of f over a finite set of indices
RECURSIVE SumOver(_, _)
SumOver(S, f) ==
  IF S = {} THEN 0
  ELSE LET x == CHOOSE y \in S : TRUE IN f[x] + SumOver(S \ {x}, f)

ExpenseIndices == {i \in 1..Len(df.rows) : df.rows[i].Amount < 0}

CategoryAnalysisRan == \E i \in 1..Len(calls) : calls[i] = "analyze_spending_by_category"

BreakdownPrinted == "spending_by_cat" \in report.printed

\* the expense rows left when the rows labelled 'Income' (any case) in the
\* explicit column are taken out; in inferred mode the labels are not read
FilteredExpenseIndices ==
  IF use_inferred THEN ExpenseIndices
  ELSE {i \in ExpenseIndices : Lower(df.rows[i].Category) # Str_income}

(* C1: whenever analyze_spending_by_category prints a breakdown, the       *)
(* per-category totals add up to the total absolute Amount of the filtered *)
(* expense set, in inferred and in explicit mode alike, also when some     *)
(* expense rows have an empty Category.                                    *)
C1_CategoryTotalsCoverExpenses ==
  BreakdownPrinted =>
    LET total == [k \in 1..Len(report.spending_by_cat) |->
                    report.spending_by_cat[k].total]
        amount == [i \in 1..Len(df.rows) |-> Abs(df.rows[i].Amount)]
    IN  SumOver(DOMAIN total, total) = SumOver(FilteredExpenseIndices, amount)

(* C2: an expense row (Amount < 0) is never classified 'Income', whatever  *)
(* its description, and the inferred breakdown has no 'Income' group.      *)
C2_IncomeNeverInferredForExpense ==
  /\ \A i \in ExpenseIndices :
       infer_category(df.rows[i].Description, df.rows[i].Amount) # Str_Income
  /\ (BreakdownPrinted /\ use_inferred) =>
       \A k \in 1..Len(report.spending_by_cat) :
          report.spending_by_cat[k].category # Str_Income

\* an expense row whose description has an Income keyword went through the
\* inferred breakdown
C2_Witness ==
  /\ BreakdownPrinted
  /\ use_inferred
  /\ \E i \in ExpenseIndices : df.rows[i].Description = Str_Paycheck_Deposit
  /\ \E k \in 1..Len(report.spending_by_cat) :
        report.spending_by_cat[k].category = Str_Miscellaneous_Expense

\* the categories in the declaration order the specification gives
DeclaredOrder ==
  <<Str_Groceries, Str_Transport, Str_Utilities, Str_Dining, Str_Shopping,
    Str_Healthcare, Str_Entertainment, Str_Travel, Str_Rent_Mortgage, Str_Income>>

Str_Gas_Bill == Join(<<Str_Gas, Str_Bill>>)

(* C3: for an expense row infer_category returns the first category, in    *)
(* the declaration order Groceries .. Rent/Mortgage, Income, that has a    *)
(* keyword occurring in the lower-cased description; 'Miscellaneous        *)
(* Expense' if none has or the first is Income.  'Starbucks Coffee' is     *)
(* 'Dining', 'Amazon order' is 'Shopping'.                                 *)
C3_FirstMatchingCategoryWins ==
  (tool = "infer" /\ pc = "done" /\ infer_in.amount < 0) =>
    LET lowered == Lower(PyStr(infer_in.description))
        matches(i) == KeywordHit(i, lowered)
        first(i) == matches(i) /\ \A j \in 1..(i - 1) : ~matches(j)
    IN  /\ [i \in 1..Len(KEYWORD_CATEGORIES) |-> KEYWORD_CATEGORIES[i].category]
             = DeclaredOrder
        /\ \A i \in 1..Len(DeclaredOrder) :
             first(i) => infer_out = (IF DeclaredOrder[i] = Str_Income
                                      THEN Str_Miscellaneous_Expense
                                      ELSE DeclaredOrder[i])
        /\ (\A i \in 1..Len(DeclaredOrder) : ~matches(i))
             => infer_out = Str_Miscellaneous_Expense
        /\ infer_in.description = Str_Starbucks_Coffee => infer_out = Str_Dining
        /\ infer_in.description = Str_Amazon_order => infer_out = Str_Shopping

\* a description in which two categories have a keyword ('gas': Transport,
\* 'bill': Utilities) was classified as the one declared first
C3_Witness ==
  /\ tool = "infer"
  /\ pc = "done"
  /\ infer_in.amount < 0
  /\ infer_in.description = Str_Gas_Bill
  /\ infer_out = Str_Transport

(* C4: analyze_spending_by_category infers the categories if and only if   *)
(* there is no Category column or more than 70% of the (expense) rows have *)
(* it empty; otherwise, exactly 70% included, the explicit labels are the  *)
(* categories, the rows labelled 'Income' in any case removed.             *)
C4_InferenceIffOver70PercentEmpty ==
  (CategoryAnalysisRan /\ ExpenseIndices # {}) =>
    LET empties == Cardinality({i \in ExpenseIndices : df.rows[i].Category = NULL})
        length  == Cardinality(ExpenseIndices)
    IN  /\ use_inferred <=>
             ("Category" \notin df.cols \/ 10 * empties > 7 * length)
        /\ (~use_inferred /\ BreakdownPrinted) =>
             {report.spending_by_cat[k].category :
                k \in 1..Len(report.spending_by_cat)}
               = {df.rows[i].Category : i \in FilteredExpenseIndices} \ {NULL}

RowsInMonth(ym) == {i \in 1..Len(df.rows) : to_period_M(df.rows[i].Date) = ym}

(* C5: in every bucket of the monthly table NetSavings is the sum of the   *)
(* positive Amounts of the month's rows minus the sum of the absolute      *)
(* negative ones, TotalIncome and TotalExpenses being those two sums; each *)
(* row falls in exactly one bucket; zero Amounts add to neither total.     *)
C5_MonthlyNetSavingsExact ==
  "monthly_summary" \in report.printed =>
    LET table    == report.monthly_summary
        positive == [i \in 1..Len(df.rows) |->
                       IF df.rows[i].Amount > 0 THEN df.rows[i].Amount ELSE 0]
        negative == [i \in 1..Len(df.rows) |->
                       IF df.rows[i].Amount < 0 THEN -df.rows[i].Amount ELSE 0]
    IN  /\ \A k \in 1..Len(table) :
             LET rows == RowsInMonth(table[k].YearMonth)
             IN  /\ table[k].TotalIncome = SumOver(rows, positive)
                 /\ table[k].TotalExpenses = SumOver(rows, negative)
                 /\ table[k].NetSavings
                      = SumOver(rows, positive) - SumOver(rows, negative)
        /\ \A i \in 1..Len(df.rows) :
             Cardinality({k \in 1..Len(table) :
                            table[k].YearMonth = to_period_M(df.rows[i].Date)}) = 1

\* two month buckets, one with income and expenses, and a zero Amount
C5_Witness ==
  /\ "monthly_summary" \in report.printed
  /\ Len(report.monthly_summary) = 2
  /\ \E k \in 1..Len(report.monthly_summary) :
        /\ report.monthly_summary[k].TotalIncome > 0
        /\ report.monthly_summary[k].TotalExpenses > 0
  /\ \E i \in 1..Len(df.rows) : df.rows[i].Amount = 0

\* the rows of the file that satisfy ok, in file order
KeptIndices(ok) == SortAsc({i \in 1..Len(file.rows) : ok[i]})

FinanceFileLoads == file.status = "ok" /\ FinanceRequiredCols \subseteq file.cols

TimeFileLoads == file.status = "ok" /\ TimeLoads(file.cols)

DateParses == [i \in 1..Len(file.rows) |-> file.rows[i].Date.t = "date"]

DateAndDurationParse ==
  [i \in 1..Len(file.rows) |->
     file.rows[i].Date.t = "date" /\ file.rows[i].Duration.t = "num"]

(* C6: load_finance_data returns exactly the rows whose Date parses, a row *)
(* with an unparsable Amount kept with Amount 0; load_time_data returns    *)
(* exactly the rows whose Date and Duration both parse (and fails when     *)
(* there is none); no returned record has a missing date.                  *)
C6_LoadersDropExactly ==
  pc # "start" =>
    /\ (tool = "finance" /\ FinanceFileLoads) =>
         LET idx == KeptIndices(DateParses)
         IN  /\ ~df.none
             /\ Len(df.rows) = Len(idx)
             /\ \A k \in 1..Len(idx) :
                  LET raw == file.rows[idx[k]]
                  IN  /\ df.rows[k].Date = raw.Date.v
                      /\ df.rows[k].Amount
                           = (IF raw.Amount.t = "num" THEN raw.Amount.v ELSE 0)
                      /\ df.rows[k].Description = raw.Description
                      /\ df.rows[k].Category = raw.Category
    /\ (tool = "time" /\ TimeFileLoads) =>
         LET idx == KeptIndices(DateAndDurationParse)
         IN  /\ df.none <=> idx = <<>>
             /\ Len(df.rows) = Len(idx)
             /\ \A k \in 1..Len(idx) :
                  LET raw == file.rows[idx[k]]
                  IN  /\ df.rows[k].Date = raw.Date.v
                      /\ df.rows[k].Duration = raw.Duration.v
                      /\ df.rows[k].Project = raw.Project
                      /\ df.rows[k].Task = raw.Task
    /\ \A k \in 1..Len(df.rows) : df.rows[k].Date # NaT

\* a finance file with a row whose Date does not parse and a row with a
\* valid Date and an unparsable Amount, loaded
C6_Witness ==
  /\ tool = "finance"
  /\ pc = "loaded"
  /\ ~df.none
  /\ \E i \in 1..Len(file.rows) : file.rows[i].Date.t # "date"
  /\ \E i \in 1..Len(file.rows) :
        file.rows[i].Date.t = "date" /\ file.rows[i].Amount.t # "num"
  /\ Len(df.rows) = 2
  /\ \E k \in 1..Len(df.rows) : df.rows[k].Amount = 0

\* the file has rows and coercion drops every one of them
AllRowsDropped ==
  /\ file.rows # <<>>
  /\ \/ tool = "finance" /\ FinanceFileLoads /\ KeptIndices(DateParses) = <<>>
     \/ tool = "time" /\ TimeFileLoads /\ KeptIndices(DateAndDurationParse) = <<>>

(* C7: when every row is dropped after coercion the loader fails and the   *)
(* run aborts: no summary statistics, no analysis table and no chart file  *)
(* are produced, in the finance tool and in the time-tracking tool.        *)
C7_NoValidDataAbortsRun ==
  (pc # "start" /\ AllRowsDropped) =>
    /\ df.none
    /\ report.printed = {}
    /\ charts = {}

\* the required columns the file lacks; Project and Task count when both do
AbsentRequiredCols ==
  IF tool = "finance"
  THEN FinanceRequiredCols \ file.cols
  ELSE (TimeRequiredCols \ file.cols)
       \cup (IF {"Project", "Task"} \cap file.cols = {}
             THEN {"Project", "Task"} ELSE {})

\* what the code names: Project and Task only when Date and Duration are there
NamedInTwoStages ==
  IF tool = "finance"
  THEN FinanceRequiredCols \ file.cols
  ELSE IF TimeRequiredCols \ file.cols # {}
       THEN TimeRequiredCols \ file.cols
       ELSE {"Project", "Task"}

ExitMessage ==
  IF tool = "finance"
  THEN "Failed to load or validate financial data. Exiting."
  ELSE "Failed to load or validate time data. Exiting."

\* the loader failed, main returned at once and nothing was produced
LoadFailedCleanly ==
  /\ df.none
  /\ pc \in {"loaded", "done"}
  /\ pc = "done" => diag[Len(diag)] = ExitMessage
  /\ calls = <<>>
  /\ report.printed = {}
  /\ charts = {}

(* C8 as stated: if a required column is absent the diagnostic names       *)
(* exactly the absent required columns, main returns, no analysis runs and *)
(* no chart is written.                                                    *)
C8_AbsentColumnsNamedExactly ==
  (tool \in {"finance", "time"} /\ pc # "start" /\ file.status = "ok"
     /\ AbsentRequiredCols # {}) =>
    /\ missing_named = AbsentRequiredCols
    /\ LoadFailedCleanly

(* C8 amended: the diagnostic names exactly the absent columns among Date, *)
(* Description, Amount (finance) or among Date, Duration (time tracking);  *)
(* it names Project and Task only when Date and Duration are present and   *)
(* both of them absent.  Main returns, no analysis runs, no chart is       *)
(* written.                                                                *)
C8_AbsentColumnsNamedInTwoStages ==
  (tool \in {"finance", "time"} /\ pc # "start" /\ file.status = "ok"
     /\ AbsentRequiredCols # {}) =>
    /\ missing_named = NamedInTwoStages
    /\ LoadFailedCleanly

\* a time-tracking file without Date, Project and Task: only Date is named
C8_Witness ==
  /\ tool = "time"
  /\ pc = "done"
  /\ file.status = "ok"
  /\ file.cols = {"Duration"}
  /\ missing_named = {"Date"}
  /\ df.none

\* the Monday that starts the ISO week of a day (day 0 is a Monday)
IsoWeekStart(day) == day - (day % 7)

(* C9: with trend period 'W' there is one bucket per ISO week (Monday to   *)
(* Sunday) that has entries, its value the sum of the Durations of the     *)
(* rows dated in that week, and no bucket for a week without entries.      *)
C9_WeeklyBucketsAreIsoWeeks ==
  (tool = "time" /\ args.trend_period = "W"
     /\ "time_over_period" \in report.printed) =>
    LET weeks    == SortAsc({IsoWeekStart(df.rows[i].Date) : i \in 1..Len(df.rows)})
        duration == [i \in 1..Len(df.rows) |-> df.rows[i].Duration]
        table    == report.time_over_period
    IN  /\ Len(table) = Len(weeks)
        /\ \A k \in 1..Len(weeks) :
             table[k].Duration
               = SumOver({i \in 1..Len(df.rows) :
                            IsoWeekStart(df.rows[i].Date) = weeks[k]}, duration)

ExpectedCalls ==
  IF tool = "finance"
  THEN <<"calculate_summary_stats", "analyze_spending_by_category",
         "analyze_monthly_trends">>
  ELSE <<"calculate_summary_stats", "analyze_time_allocation",
         "analyze_time_trends">>

IsPrefix(a, b) == Len(a) <= Len(b) /\ SubSeq(b, 1, Len(a)) = a

GroupByWarning == "Warning: Specified group_by column not found. Defaulting."

FirstTable == IF tool = "finance" THEN "spending_by_cat" ELSE "time_by_group"

SecondTable == IF tool = "finance" THEN "monthly_summary" ELSE "time_over_period"

ChartOf(table) ==
  CASE table = "spending_by_cat"  -> "spending_by_category.png"
    [] table = "monthly_summary"  -> "monthly_trends.png"
    [] table = "time_by_group"    -> AllocationChart(actual_group_col)
    [] table = "time_over_period" -> TrendChart(args.trend_period)

\* the warning a failed save of the table's chart leaves on the output
SaveError(table) ==
  CASE table = "spending_by_cat"  -> "Error saving spending by category chart"
    [] table = "monthly_summary"  -> "Error saving monthly trends chart"
    [] table = "time_by_group"    -> "Error saving time allocation chart"
    [] table = "time_over_period" ->
         IF args.trend_period = "D" THEN "Error saving daily time trend chart"
                                    ELSE "Error saving weekly time trend chart"

SaveFailed(table) == \E i \in 1..Len(diag) : diag[i] = SaveError(table)

\* what the second analysis prints, from the loaded data alone
SecondExpected ==
  IF tool = "finance" THEN analyze_monthly_trends(df)
                      ELSE analyze_time_trends(df, args.trend_period)

SecondReport ==
  IF tool = "finance" THEN report.monthly_summary ELSE report.time_over_period

(* C11: a failed chart save is reported as a warning and never ends the    *)
(* run: no exception leaves the analysis, no figure stays open, the table  *)
(* of the analysis whose save failed is already printed and its file is    *)
(* not among the charts written, and after a failed save of the first      *)
(* chart the second analysis is called and prints the table its data       *)
(* determines, its own chart either written or reported as failed.         *)
C11_ChartSaveFailureNeverFatal ==
  (tool \in {"finance", "time"} /\ ~df.none) =>
    /\ pc # "crashed"
    /\ fig_open = 0
    /\ \A t \in {FirstTable, SecondTable} :
         SaveFailed(t) => /\ t \in report.printed
                          /\ ChartOf(t) \notin charts
    /\ SaveFailed(FirstTable) =>
         /\ pc \in {"categorized", "allocated", "done"}
         /\ pc = "done" =>
              /\ calls = ExpectedCalls
              /\ (SecondTable \in report.printed) = SecondExpected.printed
              /\ SecondExpected.printed =>
                   /\ SecondReport = SecondExpected.table
                   /\ (ChartOf(SecondTable) \in charts) # SaveFailed(SecondTable)

\* the save of the spending chart failed; the monthly trends were printed
\* after it and their chart was written
C11_Witness ==
  /\ tool = "finance"
  /\ pc = "done"
  /\ SaveFailed("spending_by_cat")
  /\ "spending_by_cat" \in report.printed
  /\ "spending_by_category.png" \notin charts
  /\ "monthly_summary" \in report.printed
  /\ "monthly_trends.png" \in charts
  /\ fig_open = 0

============================================================================
